---- MODULE Spec2Model ----
(***************************************************************************)
(* Collapsed Gibbs sampler for LDA (src/src/topics/lda_gibbs.cpp).         *)
(*                                                                         *)
(* The sampler state is the three sparse count tables, the per-token       *)
(* assignment table and the PRNG.  The associative containers are modelled *)
(* as functions whose DOMAIN is the set of stored keys, so that an erased  *)
(* key, an absent key and a key created by operator[] are all visible.     *)
(* Reals are modelled exactly where they decide a branch: the categorical  *)
(* weights are rationals (numerator, denominator), the hyperparameters are *)
(* rationals, and lgamma is tabulated in units of 1/1000 at the half       *)
(* integers, which is where every argument of the model falls.             *)
(***************************************************************************)
EXTENDS Integers, Sequences, FiniteSets, TLC

\* ------------------------------------------------------------------ bounds
MaxRuns == 2        \* calls to run() made on one sampler
MaxIters == 2       \* largest num_iters argument passed to run()
MaxTokens == 3      \* tokens counted by direct calls of increase_counts

\* ------------------------------------------------------- sparse containers
EmptyMap == <<>>

Has(m, k) == k \in DOMAIN m

Put(m, k, v) == [x \in (DOMAIN m) \cup {k} |-> IF x = k THEN v ELSE m[x]]

Erase(m, k) == [x \in (DOMAIN m) \ {k} |-> m[x]]

\* m[k] of std::unordered_map: value-initialises a missing entry
Subscript(m, k, dflt) == IF Has(m, k) THEN m ELSE Put(m, k, dflt)

RECURSIVE SumOver(_, _)
SumOver(m, S) ==
    IF S = {} THEN 0
    ELSE LET k == CHOOSE x \in S : TRUE IN m[k] + SumOver(m, S \ {k})

MapSum(m) == SumOver(m, DOMAIN m)

\* ------------------------------------------------------------ forward index
\* docs: the order docs() yields; postings[d]: the (term, frequency) pairs in
\* the order counts() yields; size[d]: doc_size(d); num_terms: V.
IdxOneToken ==
    [docs |-> <<0>>, postings |-> (0 :> << <<0, 1>> >>),
     size |-> (0 :> 1), num_terms |-> 1]

IdxTwoTerms ==
    [docs |-> <<0>>, postings |-> (0 :> << <<0, 2>>, <<1, 1>> >>),
     size |-> (0 :> 3), num_terms |-> 2]

IdxTwoDocs ==
    [docs |-> <<0, 1>>,
     postings |-> (0 :> << <<0, 2>> >>) @@ (1 :> << <<1, 1>> >>),
     size |-> (0 :> 2) @@ (1 :> 1), num_terms |-> 2]

Indexes == {IdxOneToken, IdxTwoTerms, IdxTwoDocs}

\* an index that breaks its contract: doc_size(0) is not the sum of the
\* frequencies of document 0
IdxBadSize ==
    [docs |-> <<0>>, postings |-> (0 :> << <<0, 1>>, <<1, 1>> >>),
     size |-> (0 :> 3), num_terms |-> 2]

RECURSIVE FreqSum(_, _)
FreqSum(posts, p) ==
    IF p > Len(posts) THEN 0 ELSE posts[p][2] + FreqSum(posts, p + 1)

doc_size(index, d) == index.size[d]

RECURSIVE CorpusSize(_, _)
CorpusSize(index, k) ==
    IF k > Len(index.docs) THEN 0
    ELSE doc_size(index, index.docs[k]) + CorpusSize(index, k + 1)

\* the loop nest of perform_iteration, flattened: one record per execution of
\* the innermost body, carrying the loop variables i, freq.first and n
\* mutant: the document-local counter n is not advanced
RECURSIVE Occurrences_same_n(_, _, _, _)
Occurrences_same_n(d, posts, p, n) ==
    IF p > Len(posts) THEN <<>>
    ELSE [j \in 1..posts[p][2] |->
             [doc |-> d, term |-> posts[p][1], n |-> n]]
         \o Occurrences_same_n(d, posts, p + 1, n)

\* mutant: n restarts at 0 with every posting of the document
RECURSIVE Occurrences_restart_n(_, _, _, _)
Occurrences_restart_n(d, posts, p, n) ==
    IF p > Len(posts) THEN <<>>
    ELSE [j \in 1..posts[p][2] |->
             [doc |-> d, term |-> posts[p][1], n |-> j - 1]]
         \o Occurrences_restart_n(d, posts, p + 1, n)

RECURSIVE Occurrences(_, _, _, _)
Occurrences(d, posts, p, n) ==
    IF p > Len(posts) THEN <<>>
    ELSE [j \in 1..posts[p][2] |->
             [doc |-> d, term |-> posts[p][1], n |-> n + j - 1]]
         \o Occurrences(d, posts, p + 1, n + posts[p][2])

RECURSIVE SweepFrom(_, _)
SweepFrom(index, k) ==
    IF k > Len(index.docs) THEN <<>>
    ELSE Occurrences(index.docs[k], index.postings[index.docs[k]], 1, 0)
         \o SweepFrom(index, k + 1)

Sweep(index) == SweepFrom(index, 1)

\* --------------------------------------------------------------- parameters
Half == [num |-> 1, den |-> 2]
One == [num |-> 1, den |-> 1]

Topics == {1, 2}            \* num_topics values used at construction
Alphas == {Half}
Betas == {Half, One}

Zero == [num |-> 0, den |-> 1]
Fifth == [num |-> 1, den |-> 5]
Convergences == {Zero, Fifth}

\* --------------------------------------------------------------------- PRNG
RngStates == 0..15

RngNext(x) == (5 * x + 3) % 16

\* ------------------------------------------------------------------- lgamma
\* round(1000 * lgamma(x / 2)) for x = 1..60
LGammaHalves ==
    <<572, 0, -121, 0, 285, 693, 1201, 1792, 2454, 3178, 3958, 4787, 5663,
      6579, 7534, 8525, 9549, 10605, 11689, 12802, 13941, 15104, 16292,
      17502, 18734, 19987, 21260, 22552, 23863, 25191, 26537, 27899, 29278,
      30672, 32081, 33505, 34943, 36395, 37861, 39340, 40832, 42336, 43852,
      45380, 46920, 48471, 50033, 51607, 53190, 54785, 56389, 58004, 59628,
      61262, 62905, 64558, 66219, 67890, 69569, 71257>>

\* lgamma(count + mult * r) for a rational r that is a multiple of 1/2
lgamma(count, mult, r) == LGammaHalves[2 * count + (2 * mult * r.num) \div r.den]

VARIABLES
    idx, num_topics, alpha, beta,      \* lda_model / lda_gibbs parameters
    seed, rng,                         \* value of dev(), state of rng_
    topic_term_count, doc_topic_count, topic_count, doc_word_topic,
    pc,                                \* position inside run()
    runs,                              \* calls to run() so far
    num_iters, convergence,            \* arguments of the current run()
    init, iter, pos, old_topic,        \* perform_iteration: init, i, loop position
    likelihood,                        \* local of run()
    exit,                              \* how the loop of run() was left
    log,                               \* likelihoods logged by the current run()
    other,                             \* a second sampler over the same index
    zero_sum                           \* what a zero-sum draw does in this build

vars == <<idx, num_topics, alpha, beta, seed, rng, topic_term_count,
          doc_topic_count, topic_count, doc_word_topic, pc, runs, num_iters,
          convergence, init, iter, pos, old_topic, likelihood, exit, log,
          other, zero_sum>>

\* what run() never writes
fixed == <<idx, num_topics, alpha, beta, seed, other>>
tables == <<topic_term_count, doc_topic_count, topic_count>>

\* ---------------------------------------------------------------- accessors
count_term(ttc, term, topic) ==
    IF ~Has(ttc, topic) THEN 0
    ELSE IF ~Has(ttc[topic], term) THEN 0
    ELSE ttc[topic][term]

count_topic(tc, topic) == IF ~Has(tc, topic) THEN 0 ELSE tc[topic]

count_doc(dtc, doc, topic) ==
    IF ~Has(dtc, doc) THEN 0
    ELSE IF ~Has(dtc[doc], topic) THEN 0
    ELSE dtc[doc][topic]

count_doc_size(index, doc) == doc_size(index, doc)

\* ------------------------------------------------------------ count updates
Tables(ttc, dtc, tc) == [ttc |-> ttc, dtc |-> dtc, tc |-> tc, threw |-> FALSE]

\* mutant: topic_count_ is not incremented
increase_counts_no_topic_count(T, topic, term, doc) ==
    LET ttc1 == Subscript(T.ttc, topic, EmptyMap)
        in1 == Subscript(ttc1[topic], term, 0)
        dtc1 == Subscript(T.dtc, doc, EmptyMap)
        in2 == Subscript(dtc1[doc], topic, 0)
    IN [T EXCEPT
          !.ttc = Put(ttc1, topic, Put(in1, term, in1[term] + 1)),
          !.dtc = Put(dtc1, doc, Put(in2, topic, in2[topic] + 1))]

increase_counts(T, topic, term, doc) ==
    LET ttc1 == Subscript(T.ttc, topic, EmptyMap)
        in1 == Subscript(ttc1[topic], term, 0)
        dtc1 == Subscript(T.dtc, doc, EmptyMap)
        in2 == Subscript(dtc1[doc], topic, 0)
        tc1 == Subscript(T.tc, topic, 0)
    IN [T EXCEPT
          !.ttc = Put(ttc1, topic, Put(in1, term, in1[term] + 1)),
          !.dtc = Put(dtc1, doc, Put(in2, topic, in2[topic] + 1)),
          !.tc = Put(tc1, topic, tc1[topic] + 1)]

\* .at() throws std::out_of_range on a missing key; the statements before
\* the throw have already taken effect
\* mutant: operator[] in place of .at(): a missing counter is created as 0
\* and decremented
decrease_tt_subscript(T, topic, term) ==
    LET ttc1 == Subscript(T.ttc, topic, EmptyMap)
        in1 == Subscript(ttc1[topic], term, 0)
    IN IF in1[term] = 1
       THEN [T EXCEPT !.ttc = Put(ttc1, topic, Erase(in1, term))]
       ELSE [T EXCEPT !.ttc = Put(ttc1, topic, Put(in1, term, in1[term] - 1))]

decrease_tt(T, topic, term) ==
    IF ~Has(T.ttc, topic) \/ ~Has(T.ttc[topic], term)
    THEN [T EXCEPT !.threw = TRUE]
    ELSE IF T.ttc[topic][term] = 1
    THEN [T EXCEPT !.ttc = Put(T.ttc, topic, Erase(T.ttc[topic], term))]
    ELSE [T EXCEPT !.ttc[topic][term] = @ - 1]

\* mutant: doc_topic_count_ is left alone
decrease_dt_skipped(T, topic, doc) == T

\* mutant: doc_topic_count_.erase(doc) in place of .at(doc).erase(topic)
decrease_dt_erase_doc(T, topic, doc) ==
    IF T.threw THEN T
    ELSE IF ~Has(T.dtc, doc) \/ ~Has(T.dtc[doc], topic)
    THEN [T EXCEPT !.threw = TRUE]
    ELSE IF T.dtc[doc][topic] = 1
    THEN [T EXCEPT !.dtc = Erase(T.dtc, doc)]
    ELSE [T EXCEPT !.dtc[doc][topic] = @ - 1]

decrease_dt(T, topic, doc) ==
    IF T.threw THEN T
    ELSE IF ~Has(T.dtc, doc) \/ ~Has(T.dtc[doc], topic)
    THEN [T EXCEPT !.threw = TRUE]
    ELSE IF T.dtc[doc][topic] = 1
    THEN [T EXCEPT !.dtc = Put(T.dtc, doc, Erase(T.dtc[doc], topic))]
    ELSE [T EXCEPT !.dtc[doc][topic] = @ - 1]

\* mutant: topic_count_ is left alone
decrease_tc_skipped(T, topic) == T

\* mutant: the count is decremented to zero and kept
decrease_tc_store_zero(T, topic) ==
    IF T.threw THEN T
    ELSE IF ~Has(T.tc, topic) THEN [T EXCEPT !.threw = TRUE]
    ELSE [T EXCEPT !.tc[topic] = @ - 1]

decrease_tc(T, topic) ==
    IF T.threw THEN T
    ELSE IF ~Has(T.tc, topic) THEN [T EXCEPT !.threw = TRUE]
    ELSE IF T.tc[topic] = 1 THEN [T EXCEPT !.tc = Erase(T.tc, topic)]
    ELSE [T EXCEPT !.tc[topic] = @ - 1]

decrease_counts(T, topic, term, doc) ==
    decrease_tc(decrease_dt(decrease_tt(T, topic, term), topic, doc), topic)

\* ------------------------------------------------------------------- kernel
\* (count + r) / (total + mult * r) over the common denominator r.den
Ratio(count, total, mult, r) ==
    [num |-> count * r.den + r.num, den |-> total * r.den + mult * r.num]

compute_term_topic_probability(ttc, tc, index, b, term, topic) ==
    Ratio(count_term(ttc, term, topic), count_topic(tc, topic),
          index.num_terms, b)

compute_doc_topic_probability(dtc, index, K, a, doc, topic) ==
    Ratio(count_doc(dtc, doc, topic), count_doc_size(index, doc), K, a)

compute_probability(T, index, K, a, b, term, doc, topic) ==
    LET p == compute_term_topic_probability(T.ttc, T.tc, index, b, term, topic)
        q == compute_doc_topic_probability(T.dtc, index, K, a, doc, topic)
    IN [num |-> p.num * q.num, den |-> p.den * q.den]

RECURSIVE DenProduct(_, _)
DenProduct(w, j) == IF j < 0 THEN 1 ELSE w[j].den * DenProduct(w, j - 1)

RECURSIVE Cumulative(_, _)
Cumulative(W, j) == IF j < 0 THEN 0 ELSE W[j] + Cumulative(W, j - 1)

\* std::discrete_distribution: topic j is drawn with probability
\* weights[j] / sum, by comparing the variate x/16 with the running sums
discrete_distribution(w, K, x) ==
    LET dp == DenProduct(w, K - 1)
        W == [j \in 0..(K - 1) |-> w[j].num * (dp \div w[j].den)]
        total == Cumulative(W, K - 1)
    IN CHOOSE j \in 0..(K - 1) :
           /\ 16 * Cumulative(W, j) > x * total
           /\ \A h \in 0..(j - 1) : 16 * Cumulative(W, h) <= x * total

\* the weights handed to std::discrete_distribution sum to zero
ZeroSum(T, index, K, a, b, term, doc) ==
    \A j \in 0..(K - 1) :
        compute_probability(T, index, K, a, b, term, doc, j).num = 0

\* std::discrete_distribution requires a positive sum of weights; with a
\* zero sum the behaviour is undefined.  What a build does then: the
\* normalised weights are NaN and the search over the running sums ends at
\* the first or at the last topic whatever the variate, or an assertion of
\* the library aborts the process.  It is the same at every draw of a build.
\* A distribution over a single weight returns index 0 without normalising.
ZeroSumOutcomes == {"first", "last", "abort"}

\* mutant: the engine is shared between sampler instances, so a draw also
\* depends on where another sampler left it
sample_topic_shared_engine(T, index, K, a, b, term, doc, r) ==
    LET weights == [j \in 0..(K - 1) |->
                       compute_probability(T, index, K, a, b, term, doc, j)]
        shared == IF other.done THEN (r + other.rng + 1) % 16 ELSE r
    IN [topic |-> discrete_distribution(weights, K, RngNext(shared)),
        rng |-> RngNext(r)]

sample_topic(T, index, K, a, b, term, doc, r) ==
    LET weights == [j \in 0..(K - 1) |->
                       compute_probability(T, index, K, a, b, term, doc, j)]
    IN [topic |-> discrete_distribution(weights, K, RngNext(r)),
        rng |-> RngNext(r)]

\* --------------------------------------------------------------- likelihood
RECURSIVE PostingsTerm(_, _, _, _, _)
PostingsTerm(ttc, b, posts, p, j) ==
    IF p > Len(posts) THEN 0
    ELSE posts[p][2] * lgamma(count_term(ttc, posts[p][1], j), 1, b)
         + PostingsTerm(ttc, b, posts, p + 1, j)

RECURSIVE DocsTerm(_, _, _, _, _)
DocsTerm(ttc, b, index, k, j) ==
    IF k > Len(index.docs) THEN 0
    ELSE PostingsTerm(ttc, b, index.postings[index.docs[k]], 1, j)
         + DocsTerm(ttc, b, index, k + 1, j)

RECURSIVE TopicsTerm(_, _, _, _, _)
TopicsTerm(T, b, index, K, j) ==
    IF j >= K THEN 0
    ELSE DocsTerm(T.ttc, b, index, 1, j)
         - lgamma(count_topic(T.tc, j), index.num_terms, b)
         + TopicsTerm(T, b, index, K, j + 1)

corpus_likelihood(T, b, index, K) ==
    K * (lgamma(0, index.num_terms, b) - index.num_terms * lgamma(0, 1, b))
    + TopicsTerm(T, b, index, K, 0)

Abs(x) == IF x < 0 THEN -x ELSE x

\* fabs((likelihood - likelihood_update) / likelihood) <= convergence;
\* a zero divisor gives NaN or infinity, and the comparison is then false
RatioTest(l, lu, c) ==
    IF l = 0 THEN FALSE
    ELSE Abs(l - lu) * c.den <= c.num * Abs(l)

\* ------------------------------------------------------------- construction
\* no second sampler has been run
NoSampler ==
    [done |-> FALSE, seed |-> 0, rng |-> 0, num_iters |-> 0,
     convergence |-> Zero, doc_word_topic |-> EmptyMap,
     topic_term_count |-> EmptyMap, doc_topic_count |-> EmptyMap,
     topic_count |-> EmptyMap, log |-> <<>>]

Init ==
    /\ idx \in Indexes
    /\ num_topics \in Topics
    /\ alpha \in Alphas
    /\ beta \in Betas
    /\ seed \in RngStates
    /\ rng = seed
    /\ topic_term_count = EmptyMap
    /\ doc_topic_count = EmptyMap
    /\ topic_count = EmptyMap
    /\ doc_word_topic = EmptyMap
    /\ pc = "idle"
    /\ runs = 0
    /\ num_iters = 0
    /\ convergence = Zero
    /\ init = FALSE
    /\ iter = 0
    /\ pos = 0
    /\ old_topic = 0
    /\ likelihood = 0
    /\ exit = "none"
    /\ log = <<>>
    /\ other = NoSampler
    /\ zero_sum = "unknown"

\* ---------------------------------------------------------------------- run
\* where perform_iteration starts: the first token, or past the loop nest
SweepStart == IF Len(Sweep(idx)) = 0 THEN "swept" ELSE "read"

\* run(n, c) up to the first token of initialize()
Run(n, c) ==
    /\ pc = "idle"
    /\ runs < MaxRuns
    /\ runs' = runs + 1
    /\ num_iters' = n
    /\ convergence' = c
    /\ init' = TRUE
    /\ iter' = 0
    /\ pos' = 1
    /\ pc' = SweepStart
    /\ exit' = "none"
    /\ log' = <<>>
    /\ UNCHANGED <<fixed, rng, tables, doc_word_topic, old_topic, likelihood,
                   zero_sum>>

\* mutant: the token stays in the counts while its topic is sampled
ReadAndDecrease_no_decrease ==
    /\ pc = "read"
    /\ \E tok \in {Sweep(idx)[pos]} :
       \E outer \in {Subscript(doc_word_topic, tok.doc, EmptyMap)} :
       \E inner \in {Subscript(outer[tok.doc], tok.n, 0)} :
       \E T \in {Tables(topic_term_count, doc_topic_count, topic_count)} :
       \E T1 \in {T} :
          /\ doc_word_topic' = Put(outer, tok.doc, inner)
          /\ old_topic' = inner[tok.n]
          /\ topic_term_count' = T1.ttc
          /\ doc_topic_count' = T1.dtc
          /\ topic_count' = T1.tc
          /\ pc' = IF T1.threw THEN "threw" ELSE "sample"
    /\ UNCHANGED <<fixed, rng, runs, num_iters, convergence, init, iter, pos,
                   likelihood, exit, log, zero_sum>>

\* old_topic = doc_word_topic_[i][n]; if (!init) decrease_counts(...)
ReadAndDecrease ==
    /\ pc = "read"
    /\ \E tok \in {Sweep(idx)[pos]} :
       \E outer \in {Subscript(doc_word_topic, tok.doc, EmptyMap)} :
       \E inner \in {Subscript(outer[tok.doc], tok.n, 0)} :
       \E T \in {Tables(topic_term_count, doc_topic_count, topic_count)} :
       \E T1 \in {IF init THEN T
                  ELSE decrease_counts(T, inner[tok.n], tok.term, tok.doc)} :
          /\ doc_word_topic' = Put(outer, tok.doc, inner)
          /\ old_topic' = inner[tok.n]
          /\ topic_term_count' = T1.ttc
          /\ doc_topic_count' = T1.dtc
          /\ topic_count' = T1.tc
          /\ pc' = IF T1.threw THEN "threw" ELSE "sample"
    /\ UNCHANGED <<fixed, rng, runs, num_iters, convergence, init, iter, pos,
                   likelihood, exit, log, zero_sum>>

\* topic = sample_topic(...); doc_word_topic_[i][n] = topic;
\* increase_counts(...); n += 1; and the loop headers that follow
SampleAndIncrease ==
    /\ pc = "sample"
    /\ \E tok \in {Sweep(idx)[pos]} :
       \E T \in {Tables(topic_term_count, doc_topic_count, topic_count)} :
       \E o \in (IF ~ZeroSum(T, idx, num_topics, alpha, beta,
                             tok.term, tok.doc)
                 THEN {"drawn"}
                 ELSE IF num_topics < 2 THEN {"first"}
                 ELSE IF zero_sum = "unknown" THEN ZeroSumOutcomes
                 ELSE {zero_sum}) :
          IF o = "abort"
          THEN /\ zero_sum' = o
               /\ pc' = "aborted"
               /\ UNCHANGED <<rng, doc_word_topic, tables, pos>>
          ELSE \E s \in {IF o = "drawn"
                         THEN sample_topic(T, idx, num_topics, alpha, beta,
                                           tok.term, tok.doc, rng)
                         ELSE [topic |-> IF o = "first" THEN 0
                                         ELSE num_topics - 1,
                               rng |-> RngNext(rng)]} :
               \E T1 \in {increase_counts(T, s.topic, tok.term, tok.doc)} :
                  /\ zero_sum' = IF o = "drawn" THEN zero_sum ELSE o
                  /\ rng' = s.rng
                  /\ doc_word_topic' =
                         [doc_word_topic EXCEPT ![tok.doc][tok.n] = s.topic]
                  /\ topic_term_count' = T1.ttc
                  /\ doc_topic_count' = T1.dtc
                  /\ topic_count' = T1.tc
                  /\ pos' = pos + 1
                  /\ pc' = IF pos + 1 > Len(Sweep(idx)) THEN "swept"
                           ELSE "read"
    /\ UNCHANGED <<fixed, runs, num_iters, convergence, init, iter,
                   old_topic, likelihood, exit, log>>

\* mutant: i <= num_iters as the loop condition
LoopHeader_inclusive(i) ==
    IF i <= num_iters
    THEN /\ init' = FALSE
         /\ iter' = i + 1
         /\ pos' = 1
         /\ pc' = SweepStart
         /\ exit' = "none"
    ELSE /\ pc' = "idle"
         /\ exit' = "bound"
         /\ UNCHANGED <<init, iter, pos>>

\* the for header of run(): perform_iteration(i + 1) or leave the loop
LoopHeader(i) ==
    IF i < num_iters
    THEN /\ init' = FALSE
         /\ iter' = i + 1
         /\ pos' = 1
         /\ pc' = SweepStart
         /\ exit' = "none"
    ELSE /\ pc' = "idle"
         /\ exit' = "bound"
         /\ UNCHANGED <<init, iter, pos>>

\* mutant: count_topic reads topic_count_[topic], which stores 0 for a topic
\* that had no entry
AfterInitialize_reads_create ==
    /\ pc = "swept"
    /\ init
    /\ LET T == Tables(topic_term_count, doc_topic_count, topic_count)
           l == corpus_likelihood(T, beta, idx, num_topics)
       IN /\ likelihood' = l
          /\ log' = Append(log, l)
    /\ LoopHeader(0)
    /\ topic_count' = [j \in DOMAIN topic_count \cup 0..(num_topics - 1) |->
                          count_topic(topic_count, j)]
    /\ UNCHANGED <<fixed, rng, topic_term_count, doc_topic_count,
                   doc_word_topic, runs, num_iters, convergence, old_topic,
                   zero_sum>>

\* likelihood = corpus_likelihood() after initialize(), and the first test
\* of the loop condition
AfterInitialize ==
    /\ pc = "swept"
    /\ init
    /\ LET T == Tables(topic_term_count, doc_topic_count, topic_count)
           l == corpus_likelihood(T, beta, idx, num_topics)
       IN /\ likelihood' = l
          /\ log' = Append(log, l)
    /\ LoopHeader(0)
    /\ UNCHANGED <<fixed, rng, tables, doc_word_topic, runs, num_iters,
                   convergence, old_topic, zero_sum>>

\* mutant: the break is missing
AfterIteration_no_break ==
    /\ pc = "swept"
    /\ ~init
    /\ LET T == Tables(topic_term_count, doc_topic_count, topic_count)
           likelihood_update == corpus_likelihood(T, beta, idx, num_topics)
       IN /\ likelihood' = likelihood_update
          /\ log' = Append(log, likelihood_update)
    /\ LoopHeader(iter)
    /\ UNCHANGED <<fixed, rng, tables, doc_word_topic, runs, num_iters,
                   convergence, old_topic, zero_sum>>

\* the loop body of run() after perform_iteration(i + 1): the ratio test,
\* the break, ++i and the loop condition
AfterIteration ==
    /\ pc = "swept"
    /\ ~init
    /\ LET T == Tables(topic_term_count, doc_topic_count, topic_count)
           likelihood_update == corpus_likelihood(T, beta, idx, num_topics)
       IN /\ likelihood' = likelihood_update
          /\ log' = Append(log, likelihood_update)
          /\ IF RatioTest(likelihood, likelihood_update, convergence)
             THEN /\ pc' = "idle"
                  /\ exit' = "break"
                  /\ UNCHANGED <<init, iter, pos>>
             ELSE LoopHeader(iter)
    /\ UNCHANGED <<fixed, rng, tables, doc_word_topic, runs, num_iters,
                   convergence, old_topic, zero_sum>>

Next ==
    \/ \E n \in 0..MaxIters, c \in Convergences : Run(n, c)
    \/ ReadAndDecrease
    \/ SampleAndIncrease
    \/ AfterInitialize
    \/ AfterIteration

Spec == Init /\ [][Next]_vars

\* run() does not yield: once called, each of its steps is eventually taken
Step == ReadAndDecrease \/ SampleAndIncrease \/ AfterInitialize \/ AfterIteration

FairSpec == Spec /\ WF_vars(Step)

\* ------------------------------------------------------------- two samplers
\* Two samplers constructed over the same index with the same (K, alpha,
\* beta) share no mutable state, so their runs are modelled one after the
\* other: when the first has returned from run(), its seed, arguments and
\* results are kept in `other` and a second sampler is constructed, its
\* rng_ seeded from its own dev().
SecondSampler ==
    /\ pc = "idle"
    /\ runs = 1
    /\ ~other.done
    /\ other' = [done |-> TRUE, seed |-> seed, rng |-> rng,
                 num_iters |-> num_iters, convergence |-> convergence,
                 doc_word_topic |-> doc_word_topic,
                 topic_term_count |-> topic_term_count,
                 doc_topic_count |-> doc_topic_count,
                 topic_count |-> topic_count, log |-> log]
    /\ seed' \in RngStates
    /\ rng' = seed'
    /\ topic_term_count' = EmptyMap
    /\ doc_topic_count' = EmptyMap
    /\ topic_count' = EmptyMap
    /\ doc_word_topic' = EmptyMap
    /\ runs' = 0
    /\ num_iters' = 0
    /\ convergence' = Zero
    /\ init' = FALSE
    /\ iter' = 0
    /\ pos' = 0
    /\ old_topic' = 0
    /\ likelihood' = 0
    /\ exit' = "none"
    /\ log' = <<>>
    /\ UNCHANGED <<idx, num_topics, alpha, beta, pc, zero_sum>>

\* the one call of run() each sampler makes; the second sampler is given
\* the arguments of the first
RunOnce(n, c) ==
    /\ runs = 0
    /\ other.done => (n = other.num_iters /\ c = other.convergence)
    /\ Run(n, c)

PairNext ==
    \/ \E n \in 0..MaxIters, c \in Convergences : RunOnce(n, c)
    \/ ReadAndDecrease
    \/ SampleAndIncrease
    \/ AfterInitialize
    \/ AfterIteration
    \/ SecondSampler

PairSpec == Init /\ [][PairNext]_vars

\* ------------------------------------------------- unchecked construction
\* The constructor stores idx, num_topics, alpha and beta as given: a
\* sampler also exists for alpha = 0 and over an index that breaks its
\* contract.
InitAny ==
    /\ idx \in Indexes \cup {IdxBadSize}
    /\ num_topics \in Topics
    /\ alpha \in Alphas \cup {Zero}
    /\ beta \in Betas
    /\ seed \in RngStates
    /\ rng = seed
    /\ topic_term_count = EmptyMap
    /\ doc_topic_count = EmptyMap
    /\ topic_count = EmptyMap
    /\ doc_word_topic = EmptyMap
    /\ pc = "idle"
    /\ runs = 0
    /\ num_iters = 0
    /\ convergence = Zero
    /\ init = FALSE
    /\ iter = 0
    /\ pos = 0
    /\ old_topic = 0
    /\ likelihood = 0
    /\ exit = "none"
    /\ log = <<>>
    /\ other = NoSampler
    /\ zero_sum = "unknown"

AnyNext ==
    \/ \E n \in 0..MaxIters, c \in Convergences : RunOnce(n, c)
    \/ ReadAndDecrease
    \/ SampleAndIncrease
    \/ AfterInitialize
    \/ AfterIteration

AnySpec == InitAny /\ [][AnyNext]_vars

\* -------------------------------------------------------------- direct calls
\* increase_counts and decrease_counts called on a sampler outside run(),
\* with any topic, term and document of the sampler
CallIncrease(t, w, d) ==
    /\ pc = "idle"
    /\ runs = 0
    /\ MapSum(topic_count) < MaxTokens
    /\ \E T \in {Tables(topic_term_count, doc_topic_count, topic_count)} :
       \E T1 \in {increase_counts(T, t, w, d)} :
          /\ topic_term_count' = T1.ttc
          /\ doc_topic_count' = T1.dtc
          /\ topic_count' = T1.tc
    /\ UNCHANGED <<fixed, rng, doc_word_topic, pc, runs, num_iters,
                   convergence, init, iter, pos, old_topic, likelihood, exit,
                   log, zero_sum>>

\* the exception of .at() leaves decrease_counts and its caller
CallDecrease(t, w, d) ==
    /\ pc = "idle"
    /\ runs = 0
    /\ \E T \in {Tables(topic_term_count, doc_topic_count, topic_count)} :
       \E T1 \in {decrease_counts(T, t, w, d)} :
          /\ topic_term_count' = T1.ttc
          /\ doc_topic_count' = T1.dtc
          /\ topic_count' = T1.tc
          /\ pc' = IF T1.threw THEN "threw" ELSE "idle"
    /\ UNCHANGED <<fixed, rng, doc_word_topic, runs, num_iters,
                   convergence, init, iter, pos, old_topic, likelihood, exit,
                   log, zero_sum>>

TableNext ==
    \/ \E t \in 0..(num_topics - 1), w \in 0..(idx.num_terms - 1),
          k \in 1..Len(idx.docs) : CallIncrease(t, w, idx.docs[k])
    \/ \E t \in 0..(num_topics - 1), w \in 0..(idx.num_terms - 1),
          k \in 1..Len(idx.docs) : CallDecrease(t, w, idx.docs[k])

TableSpec == Init /\ [][TableNext]_vars

\* =================================================================== claims
TermIds(index) == 0..(index.num_terms - 1)
TopicIds == 0..(num_topics - 1)
DocIds(index) == {index.docs[k] : k \in 1..Len(index.docs)}

\* between the decrease_counts and the increase_counts of one resample
MidResample == pc = "sample" /\ ~init

\* an initialization sweep is under way
Initializing == init /\ pc \in {"read", "sample"}

\* the initialization sweep of a call to run() has completed
Initialized == runs >= 1 /\ ~Initializing

TermSum(t) ==
    IF Has(topic_term_count, t) THEN MapSum(topic_term_count[t]) ELSE 0

TopicSum(d) ==
    IF Has(doc_topic_count, d) THEN MapSum(doc_topic_count[d]) ELSE 0

\* C1: in every state (each is reached by a call of increase_counts or
\* decrease_counts, or precedes the first one), every topic t stored in
\* topic_count has sum over w of topic_term_count[t][w] = topic_count[t]
C1_TopicTotals == \A t \in DOMAIN topic_count : TermSum(t) = topic_count[t]

\* a decrease_counts call has just returned and left topics in topic_count
C1_Witness ==
    /\ MidResample
    /\ topic_count # EmptyMap
    /\ \E t \in DOMAIN topic_count : topic_count[t] >= 2

DocSwept(d, k) ==
    \A h \in 1..Len(Sweep(idx)) : Sweep(idx)[h].doc = d => h < k

C4_NoZeroStored ==
    /\ \A t \in DOMAIN topic_count : topic_count[t] # 0
    /\ \A t \in DOMAIN topic_term_count :
           \A w \in DOMAIN topic_term_count[t] : topic_term_count[t][w] # 0
    /\ \A d \in DOMAIN doc_topic_count :
           \A t \in DOMAIN doc_topic_count[d] : doc_topic_count[d][t] # 0

\* a decrease_counts call has just erased the key of the old topic from all
\* three tables
C4_Witness ==
    /\ MidResample
    /\ ~Has(topic_count, old_topic)
    /\ ~Has(topic_term_count[old_topic], Sweep(idx)[pos].term)
    /\ ~Has(doc_topic_count[Sweep(idx)[pos].doc], old_topic)

Entries(d) ==
    IF Has(doc_word_topic, d) THEN DOMAIN doc_word_topic[d] ELSE {}

\* C5: at the end of every sweep and after run() has returned, for an index
\* whose frequencies sum to doc_size(d), doc_word_topic[d] holds exactly the
\* positions 0 .. doc_size(d) - 1
C5_AssignmentLength ==
    (runs >= 1 /\ pc \in {"swept", "idle"}) =>
        \A d \in DocIds(idx) :
            FreqSum(idx.postings[d], 1) = doc_size(idx, d) =>
                Entries(d) = 0..(doc_size(idx, d) - 1)

C5_Witness ==
    /\ pc = "swept"
    /\ ~init
    /\ runs = 2
    /\ Len(idx.docs) = 2
    /\ Cardinality(Entries(0)) = 2

\* (t, w, d) whose three counters are all at least 1
Decrementable(T, t, w, d) ==
    /\ count_term(T.ttc, w, t) >= 1
    /\ count_doc(T.dtc, d, t) >= 1
    /\ count_topic(T.tc, t) >= 1

\* C7: on the tables of every reachable state, decrease_counts(t, w, d)
\* followed by increase_counts(t, w, d) gives the tables back
C7_DecreaseIncreaseIdentity ==
    LET T == Tables(topic_term_count, doc_topic_count, topic_count)
    IN \A t \in TopicIds, w \in TermIds(idx), d \in DocIds(idx) :
           Decrementable(T, t, w, d) =>
               increase_counts(decrease_counts(T, t, w, d), t, w, d) = T

\* a triple whose decrease erases a key, next to another topic of the same
\* document that must survive the two calls
C7_Witness ==
    LET T == Tables(topic_term_count, doc_topic_count, topic_count)
    IN \E t \in TopicIds, w \in TermIds(idx), d \in DocIds(idx) :
           /\ Decrementable(T, t, w, d)
           /\ doc_topic_count[d][t] = 1
           /\ topic_count[t] = 1
           /\ DOMAIN doc_topic_count[d] # {t}
           /\ ~decrease_counts(T, t, w, d).threw

\* C8 as stated: the initialization sweep belongs to the first call of run()
\* only; no later call on the same sampler performs it again
C8_InitializedOnce == runs >= 2 => ~Initializing

Running == pc \in {"read", "sample", "swept"}

\* ratio_k = |L_k - L_(k-1)| / |L_(k-1)| <= eps, on the logged likelihoods
Passed(k) ==
    /\ log[k] # 0
    /\ Abs(log[k + 1] - log[k]) * convergence.den
           <= convergence.num * Abs(log[k])

C9_Stops ==
    /\ iter <= num_iters
    /\ \A k \in 1..(Len(log) - 1) : Passed(k) => (pc = "idle" /\ k = iter)
    /\ (pc = "idle" /\ runs >= 1) =>
           /\ Len(log) = iter + 1
           /\ \/ exit = "break" /\ iter >= 1 /\ Passed(iter)
              \/ exit = "bound" /\ iter = num_iters
                               /\ \A k \in 1..iter : ~Passed(k)

\* C9: run() returns; it makes at most num_iters resampling sweeps, leaves
\* the loop by break right after the first sweep whose ratio test passes and
\* by the loop bound after num_iters sweeps otherwise, and no sweep follows
\* a passed test
C9_RunTerminates == [](C9_Stops) /\ (Running ~> pc = "idle")

\* a run that stopped by convergence before its iteration budget, K = 2
C9_Witness ==
    /\ pc = "idle"
    /\ exit = "break"
    /\ iter < num_iters
    /\ num_topics = 2
    /\ log[1] # log[2]

C10_NoResample ==
    (num_iters = 0 /\ runs >= 1) =>
        /\ ~(pc \in {"read", "sample"} /\ ~init)
        /\ iter = 0
        /\ pc = "idle" => exit = "bound"

\* C10: with num_iters = 0 no token is resampled, and the step after the
\* initialization sweep returns by the loop bound with the count tables and
\* doc_word_topic as the sweep left them
C10_ZeroIterations ==
    /\ [](C10_NoResample)
    /\ [][(pc = "swept" /\ init /\ num_iters = 0) =>
              /\ pc' = "idle"
              /\ exit' = "bound"
              /\ tables' = tables
              /\ doc_word_topic' = doc_word_topic]_vars

C10_Witness ==
    /\ pc = "idle"
    /\ num_iters = 0
    /\ exit = "bound"
    /\ runs = 1
    /\ MapSum(topic_count) = 3

AllTopicZero ==
    \A d \in DOMAIN doc_word_topic :
        \A n \in DOMAIN doc_word_topic[d] : doc_word_topic[d][n] = 0

\* C11 as stated: with K = 1 every token is assigned topic 0, and a run()
\* with num_iters >= 1 leaves the loop by the ratio test after exactly one
\* resampling sweep
C11_SingleTopicConverges ==
    num_topics = 1 =>
        /\ AllTopicZero
        /\ (pc = "idle" /\ runs >= 1 /\ num_iters >= 1) =>
               (iter = 1 /\ exit = "break")

Consistent(index) ==
    \A d \in DocIds(index) : FreqSum(index.postings[d], 1) = doc_size(index, d)

\* C12 as stated: a sampler on which run() has been started has K >= 1,
\* V >= 1, D >= 1, alpha > 0 and beta > 0, since construction fails otherwise
C12_RunOnlyOnValidConfiguration ==
    runs >= 1 =>
        /\ num_topics >= 1
        /\ idx.num_terms >= 1
        /\ Len(idx.docs) >= 1
        /\ alpha.num > 0
        /\ beta.num > 0

\* C14 as stated: over an index whose doc_size(d) disagrees with the posting
\* frequencies of d, run() does not resample and does not return normally
C14_BadIndexIsFatal ==
    ~Consistent(idx) =>
        /\ ~(pc \in {"read", "sample"} /\ ~init)
        /\ ~(pc = "idle" /\ runs >= 1 /\ exit \in {"break", "bound"})

\* C15 as stated: a draw whose weights are all zero neither ends the
\* process nor returns one fixed topic whatever the variate; the sweep
\* goes on
C15_ZeroSumDrawContinues ==
    /\ pc # "aborted"
    /\ (num_topics >= 2 => zero_sum \notin {"first", "last"})

\* every stored counter is at least 1
CountersPositive ==
    /\ \A t \in DOMAIN topic_count : topic_count[t] >= 1
    /\ \A t \in DOMAIN topic_term_count :
           \A w \in DOMAIN topic_term_count[t] : topic_term_count[t][w] >= 1
    /\ \A d \in DOMAIN doc_topic_count :
           \A t \in DOMAIN doc_topic_count[d] : doc_topic_count[d][t] >= 1

\* C13: a call decrease_counts(t, w, d) made while one of the three
\* counters is absent ends by the exception, whatever the tables hold; no
\* call stores a counter below 1; nothing runs after the exception
C13_AbsentCounterIsFatal ==
    /\ [](CountersPositive)
    /\ [][/\ pc # "threw"
          /\ \A t \in TopicIds, w \in TermIds(idx), d \in DocIds(idx) :
                 (/\ CallDecrease(t, w, d)
                  /\ ~Decrementable(Tables(topic_term_count,
                                           doc_topic_count, topic_count),
                                    t, w, d))
                     => pc' = "threw"]_vars

\* the exception came after topic_term_count_ had been decremented
C13_Witness ==
    /\ pc = "threw"
    /\ topic_count # EmptyMap
    /\ \E t \in DOMAIN topic_count : TermSum(t) = topic_count[t] - 1

\* one if the counter named by the right-hand side is the token's, else zero
Own(x, y) == IF x = y THEN 1 ELSE 0

\* C16: in a non-initialization sweep the step from the read to the sample
\* reads old = doc_word_topic[d][n] and lowers count_term(w, old),
\* count_doc(d, old) and count_topic(old) by one, every other count and the
\* assignments unchanged; the step that follows draws the topic from those
\* lowered counts, writes it at [d][n] and increases its counts; count_doc(d)
\* is doc_size(d) throughout
C16_ResampleOrder ==
    [][/\ (pc = "read" /\ ~init) =>
             LET tok == Sweep(idx)[pos]
                 old == doc_word_topic[tok.doc][tok.n]
             IN /\ pc' = "sample"
                /\ old_topic' = old
                /\ doc_word_topic' = doc_word_topic
                /\ \A t \in TopicIds :
                       count_topic(topic_count', t)
                           = count_topic(topic_count, t) - Own(t, old)
                /\ \A t \in TopicIds, w \in TermIds(idx) :
                       count_term(topic_term_count', w, t)
                           = count_term(topic_term_count, w, t)
                               - Own(<<t, w>>, <<old, tok.term>>)
                /\ \A t \in TopicIds, d \in DocIds(idx) :
                       count_doc(doc_topic_count', d, t)
                           = count_doc(doc_topic_count, d, t)
                               - Own(<<t, d>>, <<old, tok.doc>>)
                /\ \A d \in DocIds(idx) :
                       count_doc_size(idx', d) = doc_size(idx, d)
       /\ (pc = "sample" /\ ~init) =>
             LET tok == Sweep(idx)[pos]
                 T == Tables(topic_term_count, doc_topic_count, topic_count)
                 s == sample_topic(T, idx, num_topics, alpha, beta,
                                   tok.term, tok.doc, rng)
                 T1 == increase_counts(T, s.topic, tok.term, tok.doc)
             IN /\ pc' \in {"read", "swept"}
                /\ doc_word_topic'
                       = [doc_word_topic EXCEPT ![tok.doc][tok.n] = s.topic]
                /\ topic_term_count' = T1.ttc
                /\ doc_topic_count' = T1.dtc
                /\ topic_count' = T1.tc
                /\ \A d \in DocIds(idx) :
                       count_doc_size(idx', d) = doc_size(idx, d)]_vars

\* a resample that moved the token to another topic has completed
C16_Witness ==
    /\ ~init
    /\ pc \in {"read", "swept"}
    /\ pos >= 2
    /\ doc_word_topic[Sweep(idx)[pos - 1].doc][Sweep(idx)[pos - 1].n]
           # old_topic

\* the term of occurrence number n (from 0) of a document, counted along its
\* postings
RECURSIVE TermAt(_, _, _)
TermAt(posts, p, n) ==
    IF n < posts[p][2] THEN posts[p][1]
    ELSE TermAt(posts, p + 1, n - posts[p][2])

\* position of a document in docs()
DocPos(index, d) == CHOOSE k \in 1..Len(index.docs) : index.docs[k] = d

\* the sampling order of one sweep: documents in docs() order, each document
\* with as many occurrences as its frequencies sum to, numbered 0, 1, 2, ...
\* in the order sampled, the terms following the postings
SweepOrder(index) ==
    LET S == Sweep(index)
    IN /\ \A g, h \in 1..Len(S) :
              g < h => DocPos(index, S[g].doc) <= DocPos(index, S[h].doc)
       /\ \A d \in DocIds(index) :
              Cardinality({h \in 1..Len(S) : S[h].doc = d})
                  = FreqSum(index.postings[d], 1)
       /\ \A h \in 1..Len(S) :
              /\ S[h].n = Cardinality({g \in 1..(h - 1) : S[g].doc = S[h].doc})
              /\ S[h].term = TermAt(index.postings[S[h].doc], 1, S[h].n)

\* C17: every sweep starts at the first occurrence of the sampling order,
\* samples the occurrence it stands at, writing only that occurrence's
\* assignment, moves on by exactly one occurrence, and ends only behind the
\* last one; the order is docs(), then postings(d), with n counting the
\* occurrences of the document from 0
C17_EveryTokenOnce ==
    /\ [](SweepOrder(idx))
    /\ [][/\ (pc' = "read" /\ pc \notin {"read", "sample"}) => pos' = 1
          /\ pc = "read" => pos' = pos
          /\ pc = "sample" =>
                LET tok == Sweep(idx)[pos]
                IN /\ pos' = pos + 1
                   /\ Has(doc_word_topic', tok.doc)
                   /\ Has(doc_word_topic'[tok.doc], tok.n)
                   /\ \A d \in DOMAIN doc_word_topic' :
                          \A n \in DOMAIN doc_word_topic'[d] :
                              <<d, n>> # <<tok.doc, tok.n>> =>
                                  doc_word_topic'[d][n] = doc_word_topic[d][n]
          /\ pc' = "swept" => pos' = Len(Sweep(idx)) + 1]_vars

\* a resampling sweep has ended with the two occurrences of one posting
\* on different topics
C17_Witness ==
    /\ pc = "swept"
    /\ ~init
    /\ idx = IdxTwoTerms
    /\ doc_word_topic[0][0] # doc_word_topic[0][1]

\* number of occurrences of term w, over all documents, assigned to topic t
AssignedTerm(t, w) ==
    Cardinality({h \in 1..Len(Sweep(idx)) :
                    /\ Sweep(idx)[h].term = w
                    /\ doc_word_topic[Sweep(idx)[h].doc][Sweep(idx)[h].n] = t})

\* number of positions of document d assigned to topic t
AssignedDoc(d, t) ==
    Cardinality({n \in Entries(d) : doc_word_topic[d][n] = t})

TablesAgree ==
    /\ \A d \in DocIds(idx) :
           \A n \in Entries(d) : doc_word_topic[d][n] \in TopicIds
    /\ \A t \in TopicIds, w \in TermIds(idx) :
           count_term(topic_term_count, w, t) = AssignedTerm(t, w)
    /\ \A t \in TopicIds, d \in DocIds(idx) :
           count_doc(doc_topic_count, d, t) = AssignedDoc(d, t)

\* C18: the steps of an initialization sweep that read the old topic leave
\* the three tables alone, and at the end of every sweep, initialization or
\* later, every assignment is a topic id below K, topic_term_count[t][w] is
\* the number of occurrences of w assigned to t and doc_topic_count[d][t]
\* the number of positions of d assigned to t
C18_TablesAgreeAfterSweep ==
    /\ [](pc = "swept" => TablesAgree)
    /\ [][(init /\ pc = "read") => UNCHANGED tables]_vars

\* C19: count_term, count_topic and count_doc give 0 for a key that is not
\* stored; the step that computes the likelihood after a sweep changes no
\* table and no assignment; drawing a topic, which reads the counts of all K
\* topics, adds no key except those of the topic drawn
C19_ReadsLeaveTables ==
    /\ [](/\ \A t \in TopicIds :
                ~Has(topic_count, t) => count_topic(topic_count, t) = 0
          /\ \A t \in TopicIds, w \in TermIds(idx) :
                (Has(topic_term_count, t) => ~Has(topic_term_count[t], w))
                    => count_term(topic_term_count, w, t) = 0
          /\ \A t \in TopicIds, d \in DocIds(idx) :
                (Has(doc_topic_count, d) => ~Has(doc_topic_count[d], t))
                    => count_doc(doc_topic_count, d, t) = 0)
    /\ [][/\ pc = "swept" =>
                /\ log' # log
                /\ UNCHANGED <<tables, doc_word_topic>>
          /\ pc = "sample" =>
                LET tok == Sweep(idx)[pos]
                    new == doc_word_topic'[tok.doc][tok.n]
                IN /\ DOMAIN topic_count' = DOMAIN topic_count \cup {new}
                   /\ DOMAIN topic_term_count'
                          = DOMAIN topic_term_count \cup {new}
                   /\ \A t \in DOMAIN topic_term_count :
                          t # new => topic_term_count'[t] = topic_term_count[t]
                   /\ DOMAIN doc_topic_count'
                          = DOMAIN doc_topic_count \cup {tok.doc}
                   /\ DOMAIN doc_topic_count'[tok.doc]
                          = (IF Has(doc_topic_count, tok.doc)
                             THEN DOMAIN doc_topic_count[tok.doc]
                             ELSE {}) \cup {new}]_vars

\* the likelihood was computed, and weights were drawn from, tables that
\* have no entry for one of the two topics
C19_Witness ==
    /\ num_topics = 2
    /\ Len(log) >= 2
    /\ \E t \in TopicIds : ~Has(topic_count, t)
    /\ \E t \in TopicIds : ~Has(topic_term_count, t)

\* C20: whenever a call of run has returned, the first or a later one on
\* the same sampler, the sum over t of topic_count[t] is the number N of
\* tokens of the corpus and, for every document d, the sum over t of
\* doc_topic_count[d][t] is doc_size(d)
C20_RepeatedRunKeepsTotals ==
    (pc = "idle" /\ runs >= 1) =>
        /\ MapSum(topic_count) = CorpusSize(idx, 1)
        /\ \A d \in DocIds(idx) : TopicSum(d) = doc_size(idx, d)

====
